---------------------------- MODULE Spec2Model ----------------------------
(***************************************************************************)
(* Version masking of local crates (src/skeleton/version_masking.rs).      *)
(*                                                                         *)
(* A toml::Value is modelled as a tagged record:                           *)
(*   [k |-> "String",  s |-> <string>]                                     *)
(*   [k |-> "Integer", i |-> <number>]                                     *)
(*   [k |-> "Table",   t |-> <function from the present keys to values>]   *)
(*   [k |-> "Array",   a |-> <sequence of values>]                         *)
(* and Option::None as [k |-> "None"].                                     *)
(***************************************************************************)
EXTENDS Naturals, Sequences, FiniteSets, TLC

VARIABLES
    member,       \* member: &Option<String>, fixed for the run
    manifests,    \* manifests: &mut [ParsedManifest]
    lock_file,    \* lock_file: &mut Option<toml::Value>
    manifests0,   \* the manifests as they were handed to the latest call
    lock_file0,   \* the lock document as it was handed to the latest call
    names,        \* local_package_names computed by the latest call
    calls,        \* number of calls of mask_local_crate_versions so far
    manifestsB,   \* a second workspace: the same one with local versions bumped
    lock_fileB,   \* its lock document
    manifestsB0,  \* the second workspace as handed to the call
    lock_fileB0,
    bumps         \* number of version bumps applied to the second workspace

vars == <<member, manifests, lock_file, manifests0, lock_file0, names, calls,
          manifestsB, lock_fileB, manifestsB0, lock_fileB0, bumps>>

---------------------------------------------------------------------------
(* toml::Value and Option *)

None == [k |-> "None"]

Some(v) == [k |-> "Some", v |-> v]

Str(s) == [k |-> "String", s |-> s]

Int(i) == [k |-> "Integer", i |-> i]

Tbl(t) == [k |-> "Table", t |-> t]

Arr(a) == [k |-> "Array", a |-> a]

EmptyTable == Tbl([key \in {} |-> None])

IsSome(o) == o.k # "None"

IsTable(v) == v.k = "Table"

\* toml::Value::get / get_mut with a string index: Some only on a table that
\* holds the key.  Applied to None it models the enclosing `if let Some(..)`.
Get(v, key) == IF v.k = "Table" /\ key \in DOMAIN v.t THEN v.t[key] ELSE None

\* Assignment through the reference get_mut(key) returned.
Put(v, key, x) == [v EXCEPT !.t[key] = x]

---------------------------------------------------------------------------
(* The masking code *)

CONST_VERSION == "0.0.1"

DependencyKeys == <<"dependencies", "dev-dependencies", "build-dependencies">>

\* lines 157-162: the keys of the entries that have a path.
PathKeys(dependencies) ==
    IF dependencies.k = "Table"
    THEN {key \in DOMAIN dependencies.t : IsSome(Get(dependencies.t[key], "path"))}
    ELSE {}

\* Mutant: the `continue` of line 149 missing, so that with a member filter
\* every manifest's path dependencies are collected.
ManifestLocalNamesNoContinue(mem, manifest) ==
    LET name == Get(Get(manifest.contents, "package"), "name") IN
    IF name.k # "String" THEN {}
    ELSE IF IsSome(mem)
         THEN UNION {PathKeys(Get(manifest.contents, DependencyKeys[d])) :
                        d \in DOMAIN DependencyKeys}
         ELSE {name.s}

\* Mutant: with a member filter only the "dependencies" table is scanned.
ManifestLocalNamesDependenciesOnly(mem, manifest) ==
    LET name == Get(Get(manifest.contents, "package"), "name") IN
    IF name.k # "String" THEN {}
    ELSE IF IsSome(mem)
         THEN IF mem.v # name.s
              THEN {}
              ELSE PathKeys(Get(manifest.contents, "dependencies"))
         ELSE {name.s}

\* lines 143-171: what one manifest adds to local_package_names.
ManifestLocalNames(mem, manifest) ==
    LET name == Get(Get(manifest.contents, "package"), "name") IN
    IF name.k # "String" THEN {}
    ELSE IF IsSome(mem)
         THEN IF mem.v # name.s
              THEN {}
              ELSE UNION {PathKeys(Get(manifest.contents, DependencyKeys[d])) :
                            d \in DOMAIN DependencyKeys}
         ELSE {name.s}

RECURSIVE ParseFrom(_, _, _, _)
ParseFrom(mem, ms, i, acc) ==
    IF i > Len(ms) THEN acc
    ELSE ParseFrom(mem, ms, i + 1, acc \cup ManifestLocalNames(mem, ms[i]))

parse_local_crate_names(mem, ms) == ParseFrom(mem, ms, 1, {})

\* lines 38-49: the filter of the lock masker.
IsLocalPackage(package, local_package_names) ==
    LET name == Get(package, "name") IN
    IF name.k = "String" THEN name.s \in local_package_names ELSE FALSE

\* Mutant: the version inserted (insert) instead of overwritten (get_mut).
MaskLockPackageInsert(package) ==
    IF IsTable(package)
    THEN Tbl(("version" :> Str(CONST_VERSION)) @@ package.t)
    ELSE package

\* lines 51-55
MaskLockPackage(package) ==
    IF IsSome(Get(package, "version"))
    THEN Put(package, "version", Str(CONST_VERSION))
    ELSE package

RECURSIVE SwapFrom(_, _, _, _)
SwapFrom(records, local_package_names, j, carried) ==
    IF j > Len(records) THEN records
    ELSE IF /\ IsLocalPackage(records[j], local_package_names)
            /\ IsSome(Get(records[j], "version"))
         THEN SwapFrom([records EXCEPT ![j] = Put(records[j], "version", carried)],
                       local_package_names, j + 1, Get(records[j], "version"))
         ELSE SwapFrom(records, local_package_names, j + 1, carried)

\* Mutant: the placeholder is built once before the loop and swapped into each
\* version (mem::swap) instead of assigned, so the second local record gets the
\* first one's old version.
mask_local_versions_in_lockfile_swap(l, local_package_names) ==
    LET packages == Get(l, "package") IN
    IF packages.k = "Array"
    THEN Put(l, "package",
             Arr(SwapFrom(packages.a, local_package_names, 1, Str(CONST_VERSION))))
    ELSE l

mask_local_versions_in_lockfile(l, local_package_names) ==
    LET packages == Get(l, "package") IN
    IF packages.k = "Array"
    THEN Put(l, "package",
             Arr([i \in DOMAIN packages.a |->
                    IF IsLocalPackage(packages.a[i], local_package_names)
                    THEN MaskLockPackage(packages.a[i])
                    ELSE packages.a[i]]))
    ELSE l

\* lines 83-87
MaskLocalDependency(local_dependency) ==
    IF IsSome(Get(local_dependency, "version"))
    THEN Put(local_dependency, "version", Str(CONST_VERSION))
    ELSE local_dependency

\* lines 82-88: the loop over local_package_names on one dependencies table.
RECURSIVE MaskDependencies(_, _)
MaskDependencies(dependencies, todo) ==
    IF todo = {} THEN dependencies
    ELSE LET local_package == CHOOSE n \in todo : TRUE
             next == IF IsSome(Get(dependencies, local_package))
                     THEN Put(dependencies, local_package,
                              MaskLocalDependency(Get(dependencies, local_package)))
                     ELSE dependencies
         IN MaskDependencies(next, todo \ {local_package})

\* lines 80-90: the loop over the three dependency keys, from the d-th on.
RECURSIVE MaskFrom(_, _, _)
MaskFrom(local_package_names, toml_value, d) ==
    IF d > Len(DependencyKeys) THEN toml_value
    ELSE LET dependency_key == DependencyKeys[d]
             next == IF IsSome(Get(toml_value, dependency_key))
                     THEN Put(toml_value, dependency_key,
                              MaskDependencies(Get(toml_value, dependency_key),
                                               local_package_names))
                     ELSE toml_value
         IN MaskFrom(local_package_names, next, d + 1)

\* Mutant: only the "dependencies" table is visited, dev-dependencies and
\* build-dependencies are forgotten.
_mask_dependencies_only(local_package_names, toml_value) ==
    IF IsSome(Get(toml_value, "dependencies"))
    THEN Put(toml_value, "dependencies",
             MaskDependencies(Get(toml_value, "dependencies"), local_package_names))
    ELSE toml_value

_mask(local_package_names, toml_value) == MaskFrom(local_package_names, toml_value, 1)

\* lines 109-115
MaskTargets(local_package_names, contents) ==
    LET targets == Get(contents, "target") IN
    IF targets.k = "Table"
    THEN Put(contents, "target",
             Tbl([c \in DOMAIN targets.t |-> _mask(local_package_names, targets.t[c])]))
    ELSE contents

\* lines 127-131
MaskWorkspacePackage(workspace) ==
    LET package == Get(workspace, "package") IN
    IF IsSome(Get(package, "version"))
    THEN Put(workspace, "package", Put(package, "version", Str(CONST_VERSION)))
    ELSE workspace

\* lines 125-134
MaskWorkspace(local_package_names, contents) ==
    LET workspace == Get(contents, "workspace") IN
    IF IsSome(workspace)
    THEN Put(contents, "workspace",
             _mask(local_package_names, MaskWorkspacePackage(workspace)))
    ELSE contents

mask_local_dependency_versions(local_package_names, manifest) ==
    [manifest EXCEPT !.contents =
        MaskWorkspace(local_package_names,
            MaskTargets(local_package_names,
                _mask(local_package_names, manifest.contents)))]

\* Mutant: the self version masked only for the packages of the local name set.
MaskSelfVersionIfLocal(local_package_names, manifest) ==
    LET package == Get(manifest.contents, "package")
        version == Get(package, "version")
        name    == Get(package, "name")
    IN IF version.k = "String" /\ name.k = "String" /\ name.s \in local_package_names
       THEN [manifest EXCEPT !.contents =
                Put(manifest.contents, "package",
                    Put(package, "version", Str(CONST_VERSION)))]
       ELSE manifest

\* lines 64-70
MaskSelfVersion(local_package_names, manifest) ==
    LET package == Get(manifest.contents, "package")
        version == Get(package, "version")
    IN IF version.k = "String"
       THEN [manifest EXCEPT !.contents =
                Put(manifest.contents, "package",
                    Put(package, "version", Str(CONST_VERSION)))]
       ELSE manifest

mask_local_versions_in_manifests(ms, local_package_names) ==
    [i \in DOMAIN ms |->
        mask_local_dependency_versions(local_package_names,
            MaskSelfVersion(local_package_names, ms[i]))]

\* lines 19-21
MaskLockOption(lock, local_package_names) ==
    IF IsSome(lock)
    THEN mask_local_versions_in_lockfile(lock, local_package_names)
    ELSE lock


\* lines 12-22: the documents after one call.
mask_local_crate_versions(mem, ms, lock) ==
    LET local_package_names == parse_local_crate_names(mem, ms) IN
    [names     |-> local_package_names,
     manifests |-> mask_local_versions_in_manifests(ms, local_package_names),
     lock_file |-> MaskLockOption(lock, local_package_names)]

---------------------------------------------------------------------------
(* Bounds of the explored inputs *)

NumManifests == 2   \* manifests in a workspace

MaxLockLen == 3     \* records in the lock document's package array

NumTargets == 1     \* entries of a manifest's target table

MaxCalls == 2       \* successive calls on the same documents

MaxBumps == 1       \* local version values changed in the second workspace

---------------------------------------------------------------------------
(* The explored documents *)

\* A table holding the given <<key, value>> pairs; a pair whose value is None
\* stands for an absent key.
Mk(pairs) ==
    LET present == {p \in pairs : IsSome(p[2])} IN
    Tbl([key \in {p[1] : p \in present} |-> (CHOOSE p \in present : p[1] = key)[2]])

Package(name, version) == Mk({<<"name", name>>, <<"version", version>>})

Dep(version, path) == Mk({<<"version", version>>, <<"path", path>>})

Manifest(contents) == [contents |-> contents]

TargetNames == <<"cfg(windows)", "cfg(unix)", "cfg(target_os)">>

LocalPath == Str("../local")

\* The shapes of one dependency entry: bare version string, table with and
\* without version and path.
DepEntries ==
    {Str("1.0.0"), Dep(Str("1.0.0"), None), Dep(None, LocalPath), Dep(Str("1.0.0"), LocalPath)}

\* Members without dependencies, and one member depending on c by path.
PlainManifests ==
    {Manifest(Mk({<<"package", Package(Str("a"), Str("1.0.0"))>>})),
     Manifest(Mk({<<"package", Package(Str("a"), Int(1))>>})),
     Manifest(Mk({<<"package", Package(Str("a"), None)>>})),
     Manifest(Mk({<<"package", Package(Str("b"), Str("1.2.0"))>>})),
     Manifest(Mk({<<"package", Package(Str("b"), Str("1.2.0"))>>,
                  <<"dependencies", Mk({<<"c", Dep(Str("3.0.0"), Str("../c"))>>})>>})),
     Manifest(Mk({<<"package", Package(Int(7), Str("1.0.0"))>>,
                  <<"dependencies", Mk({<<"b", Dep(Str("1.2.0"), LocalPath)>>})>>})),
     Manifest(Mk({<<"package", Str("a")>>})),
     Manifest(EmptyTable)}

\* Member a with one dependency entry in one top-level section.
RichManifests ==
    {Manifest(Mk({<<"package", Package(Str("a"), Str("1.0.0"))>>,
                  <<DependencyKeys[d], Mk({<<key, e>>})>>})) :
        d \in DOMAIN DependencyKeys, key \in {"b", "c"}, e \in DepEntries}

RECURSIVE Workspaces(_, _, _)
\* The sequences of 1..n manifests, the first of First, the others of Rest.
Workspaces(First, Rest, n) ==
    IF n = 0 THEN {}
    ELSE IF n = 1 THEN {<<m>> : m \in First}
    ELSE LET shorter == Workspaces(First, Rest, n - 1) IN
         shorter \cup {Append(w, m) : w \in {v \in shorter : Len(v) = n - 1}, m \in Rest}

LockRecord(name, version, source) ==
    Mk({<<"name", name>>, <<"version", version>>, <<"source", source>>})

Registry == Str("registry+https://github.com/rust-lang/crates.io-index")

LockRecords ==
    {LockRecord(Str("a"), Str("1.0.0"), None),
     LockRecord(Str("b"), Str("1.2.0"), None),
     LockRecord(Str("c"), Str("3.0.0"), Registry),
     LockRecord(Str("b"), Str("1.0.0"), Registry),
     LockRecord(Str("b"), None, None),
     LockRecord(Int(7), Str("1.0.0"), None),
     LockRecord(None, Str("1.0.0"), Registry)}

RECURSIVE SeqsUpTo(_, _)
SeqsUpTo(S, n) ==
    IF n = 0 THEN {<<>>}
    ELSE LET shorter == SeqsUpTo(S, n - 1) IN
         shorter \cup {Append(q, x) : q \in {v \in shorter : Len(v) = n - 1}, x \in S}

LockOf(records) == Mk({<<"version", Int(3)>>, <<"package", Arr(records)>>})

LockABC ==
    LockOf(<<LockRecord(Str("a"), Str("1.0.0"), None),
             LockRecord(Str("b"), Str("1.2.0"), None),
             LockRecord(Str("c"), Str("3.0.0"), Registry)>>)

LockDocs ==
    {None, Mk({<<"version", Int(3)>>}), Mk({<<"package", Str("none")>>})}
        \cup {LockOf(q) : q \in SeqsUpTo(LockRecords, MaxLockLen)}

Members == {None, Some("a"), Some("b"), Some("z")}

\* Family 1: workspaces of varied manifests, with and without the lock document.
InputsManifests ==
    {<<mem, w, l>> : mem \in Members,
                     w \in Workspaces(RichManifests \cup PlainManifests, PlainManifests,
                                      NumManifests),
                     l \in {None, LockABC}}

\* Family 2: varied lock documents.
InputsLocks ==
    LET A  == Manifest(Mk({<<"package", Package(Str("a"), Str("1.0.0"))>>}))
        B  == Manifest(Mk({<<"package", Package(Str("b"), Str("1.2.0"))>>}))
        Bc == Manifest(Mk({<<"package", Package(Str("b"), Str("1.2.0"))>>,
                           <<"dependencies", Mk({<<"c", Dep(Str("3.0.0"), Str("../c"))>>})>>}))
    IN {<<mem, w, l>> : mem \in {None, Some("b")},
                        w \in {<<A, B>>, <<A, Bc>>},
                        l \in LockDocs}

\* The dependency tables placed in the scopes of family 3.
ScopeTables ==
    {Mk({<<"b", Dep(Str("1.2.0"), LocalPath)>>}),
     Mk({<<"b", Dep(Str("1.2.0"), None)>>}),
     Mk({<<"b", Str("1.2.0")>>}),
     Mk({<<"b", Dep(Str("1.2.0"), LocalPath)>>, <<"c", Dep(Str("3.0.0"), None)>>}),
     Mk({<<"b", Dep(Int(2), LocalPath)>>}),
     Mk({<<"b", Dep(None, LocalPath)>>, <<"c", Str("3.0.0")>>}),
     Str("1.2.0")}

WorkspaceVersions == {None, Str("1.0.0"), Int(1)}

\* A scope: `base` with the table D under each of the chosen dependency keys.
ScopeWith(base, secs, D) ==
    Tbl([key \in {DependencyKeys[d] : d \in secs} |-> D] @@ base.t)

\* Member a with the table D under the dependency keys `secs` of the top level
\* (top), of the target entries `tgts`, and of the workspace section (ws).
ScopedManifest(D, secs, top, tgts, ws, wsver) ==
    LET package   == Mk({<<"package", Package(Str("a"), Str("1.0.0"))>>})
        toplevel  == IF top THEN ScopeWith(package, secs, D) ELSE package
        target    == IF tgts = {} THEN None
                     ELSE Tbl([c \in {TargetNames[t] : t \in tgts} |->
                                  ScopeWith(EmptyTable, secs, D)])
        wspackage == Mk({<<"package", Mk({<<"version", wsver>>})>>})
        workspace == IF ws THEN ScopeWith(wspackage, secs, D)
                     ELSE IF IsSome(wsver) THEN wspackage ELSE None
    IN Manifest(Tbl(Mk({<<"target", target>>, <<"workspace", workspace>>}).t @@ toplevel.t))

\* One member with a table of `tables` in every choice of scopes and a
\* workspace.package.version of `wsvers`, beside member b.
ScopeInputs(tables, wsvers) ==
    LET B == Manifest(Mk({<<"package", Package(Str("b"), Str("1.2.0"))>>})) IN
    {<<mem, <<ScopedManifest(D, secs, top, tgts, ws, wsver), B>>, LockABC>> :
        mem \in {None, Some("a")},
        D \in tables,
        secs \in (SUBSET DOMAIN DependencyKeys) \ {{}},
        top \in BOOLEAN, tgts \in SUBSET (1..NumTargets),
        ws \in BOOLEAN, wsver \in wsvers}

\* Family 3: dependencies in every scope, and target and workspace sections
\* that are no tables.
InputsScopes ==
    LET B == Manifest(Mk({<<"package", Package(Str("b"), Str("1.2.0"))>>}))
        odd == {Manifest(Mk({<<"package", Package(Str("a"), Str("1.0.0"))>>,
                             <<"target", Str("x")>>, <<"workspace", Str("x")>>})),
                Manifest(Mk({<<"package", Package(Str("a"), Str("1.0.0"))>>,
                             <<"workspace", Mk({<<"package", Str("x")>>})>>}))}
    IN ScopeInputs(ScopeTables, WorkspaceVersions)
          \cup {<<mem, <<m, B>>, LockABC>> : mem \in {None, Some("a")}, m \in odd}

Inputs == InputsManifests \cup InputsLocks \cup InputsScopes

---------------------------------------------------------------------------
(* The state machine *)

Init ==
    \E in \in Inputs :
        /\ member = in[1]
        /\ manifests = in[2]
        /\ lock_file = in[3]
        /\ manifests0 = in[2]
        /\ lock_file0 = in[3]
        /\ names = {}
        /\ calls = 0
        /\ manifestsB = <<>>
        /\ lock_fileB = None
        /\ manifestsB0 = <<>>
        /\ lock_fileB0 = None
        /\ bumps = 0

\* One call of mask_local_crate_versions on the documents.
MaskCall ==
    /\ calls < MaxCalls
    /\ LET out == mask_local_crate_versions(member, manifests, lock_file) IN
        /\ names' = out.names
        /\ manifests' = out.manifests
        /\ lock_file' = out.lock_file
    /\ manifests0' = manifests
    /\ lock_file0' = lock_file
    /\ calls' = calls + 1
    /\ UNCHANGED <<member, manifestsB, lock_fileB, manifestsB0, lock_fileB0, bumps>>

Next == MaskCall

Spec == Init /\ [][Next]_vars


---------------------------------------------------------------------------
(* Readers used by the properties *)

PackageName(manifest) == Get(Get(manifest.contents, "package"), "name")

SelfVersion(manifest) == Get(Get(manifest.contents, "package"), "version")

WorkspaceVersion(manifest) ==
    Get(Get(Get(manifest.contents, "workspace"), "package"), "version")

Keys(v) == IF IsTable(v) THEN DOMAIN v.t ELSE {}

LockPackages(lock) ==
    IF Get(lock, "package").k = "Array" THEN Get(lock, "package").a ELSE <<>>

\* v1 is the table v0 with nothing but the value under `key` changed.
SameExcept(v0, v1, key) ==
    /\ IsTable(v0) /\ IsTable(v1)
    /\ DOMAIN v1.t = DOMAIN v0.t
    /\ \A f \in DOMAIN v0.t \ {key} : v1.t[f] = v0.t[f]

Placeholder == Str("0.0.1")

---------------------------------------------------------------------------
(* C1 *)

\* C1: idempotence.  A second call with the same member filter on the
\* documents the first call produced changes no manifest and not the lock
\* document.
Idempotent ==
    calls >= 2 => manifests = manifests0 /\ lock_file = lock_file0

\* The second call ran on documents the first one had masked under a member
\* filter: a dependency and a lock record carry the placeholder.
IdempotentWitness ==
    /\ calls = 2
    /\ IsSome(member)
    /\ names # {}
    /\ \E i \in DOMAIN manifests, d \in DOMAIN DependencyKeys, n \in names :
          Get(Get(Get(manifests[i].contents, DependencyKeys[d]), n), "version") = Placeholder
    /\ \E j \in DOMAIN LockPackages(lock_file) :
          /\ IsLocalPackage(LockPackages(lock_file)[j], names)
          /\ Get(LockPackages(lock_file)[j], "version") = Placeholder

\* Idempotence without a member filter and without a lock document.
IdempotentWitnessNoLock ==
    calls = 2 /\ ~IsSome(member) /\ ~IsSome(lock_file) /\ names # {}

---------------------------------------------------------------------------
(* C3 *)

\* C3: self-version masking.  After a call every manifest whose
\* package.version was a string has the placeholder there, whatever the member
\* filter and the local name set; a package.version that is no string (or is
\* absent) is as it was.
SelfVersionMasked ==
    calls >= 1 =>
        \A i \in DOMAIN manifests0 :
            IF SelfVersion(manifests0[i]).k = "String"
            THEN SelfVersion(manifests[i]) = Placeholder
            ELSE SelfVersion(manifests[i]) = SelfVersion(manifests0[i])

\* A member filter naming another manifest, this manifest's name outside the
\* local name set, and its string version masked all the same; beside it a
\* manifest whose version is no string.
SelfVersionWitness ==
    /\ calls = 1
    /\ IsSome(member)
    /\ \E i \in DOMAIN manifests0 :
          /\ PackageName(manifests0[i]).k = "String"
          /\ PackageName(manifests0[i]).s # member.v
          /\ PackageName(manifests0[i]).s \notin names
          /\ SelfVersion(manifests0[i]).k = "String"
          /\ SelfVersion(manifests0[i]) # Placeholder
          /\ SelfVersion(manifests[i]) = Placeholder
    /\ \E i \in DOMAIN manifests0 : SelfVersion(manifests0[i]).k = "Integer"

---------------------------------------------------------------------------
(* C5 *)

\* The string package.name values of the manifests.
DeclaredNames(ms) ==
    {PackageName(ms[i]).s : i \in {j \in DOMAIN ms : PackageName(ms[j]).k = "String"}}

\* The keys of the table entries with a path field in the three top-level
\* dependency tables of the manifests named m.
PathDeclared(ms, m) ==
    UNION {{key \in Keys(Get(ms[i].contents, DependencyKeys[d])) :
                LET e == Get(ms[i].contents, DependencyKeys[d]).t[key]
                IN IsTable(e) /\ "path" \in DOMAIN e.t} :
           i \in {j \in DOMAIN ms : PackageName(ms[j]) = Str(m)},
           d \in DOMAIN DependencyKeys}

\* The local name set as the resolver is specified.
Resolved(mem, ms) == IF IsSome(mem) THEN PathDeclared(ms, mem.v) ELSE DeclaredNames(ms)

\* C5: the resolver's result.  Without member filter the set is exactly the
\* string package.name values; with filter m exactly the keys of the table
\* entries with a path in the top-level dependency tables of the manifests
\* named m.
ResolverResult ==
    calls >= 1 => names = Resolved(member, manifests0)

\* Filter a, a depends on b by path and on c without a path: the set is {b}.
ResolverWitness ==
    /\ calls = 1
    /\ member = Some("a")
    /\ names = {"b"}
    /\ \E i \in DOMAIN manifests0, d \in DOMAIN DependencyKeys :
          /\ PackageName(manifests0[i]) = Str("a")
          /\ IsSome(Get(Get(manifests0[i].contents, DependencyKeys[d]), "b"))
          /\ IsSome(Get(Get(manifests0[i].contents, DependencyKeys[d]), "c"))
    /\ \E i \in DOMAIN manifests0 : PackageName(manifests0[i]) = Str("b")

---------------------------------------------------------------------------
(* C8 *)

\* C8: the lock masker's effect and frame.  The records whose name is a string
\* of the local name set and that have a version get the placeholder as
\* version and change in nothing else; every other record, every other key of
\* the document and the length and order of the package array are as they were.
LockMaskedExactly ==
    (calls >= 1 /\ IsSome(lock_file0)) =>
        LET p0 == Get(lock_file0, "package")
            p1 == Get(lock_file, "package")
        IN IF p0.k = "Array"
           THEN /\ SameExcept(lock_file0, lock_file, "package")
                /\ p1.k = "Array"
                /\ Len(p1.a) = Len(p0.a)
                /\ \A j \in DOMAIN p0.a :
                      IF /\ Get(p0.a[j], "name").k = "String"
                         /\ Get(p0.a[j], "name").s \in names
                         /\ IsSome(Get(p0.a[j], "version"))
                      THEN /\ SameExcept(p0.a[j], p1.a[j], "version")
                           /\ Get(p1.a[j], "version") = Placeholder
                      ELSE p1.a[j] = p0.a[j]
           ELSE lock_file = lock_file0

\* A local record was masked, a local record without version and a record of
\* another name with a source field stayed as they were.
LockMaskedWitness ==
    /\ calls = 1
    /\ \E j \in DOMAIN LockPackages(lock_file0) :
          /\ LockPackages(lock_file)[j] # LockPackages(lock_file0)[j]
          /\ Get(LockPackages(lock_file)[j], "version") = Placeholder
    /\ \E j \in DOMAIN LockPackages(lock_file0) :
          /\ IsLocalPackage(LockPackages(lock_file0)[j], names)
          /\ ~IsSome(Get(LockPackages(lock_file0)[j], "version"))
    /\ \E j \in DOMAIN LockPackages(lock_file0) :
          /\ ~IsLocalPackage(LockPackages(lock_file0)[j], names)
          /\ IsSome(Get(LockPackages(lock_file0)[j], "source"))
          /\ Get(LockPackages(lock_file)[j], "version") = Str("3.0.0")


---------------------------------------------------------------------------
(* C7, C4 *)

\* The pairs <<scope before, scope after>> of the scopes the manifest masker
\* visits: the top level, every entry of a target table, the workspace section.
ScopePairs(c0, c1) ==
    {<<c0, c1>>}
        \cup {<<Get(c0, "target").t[c], Get(Get(c1, "target"), c)>> :
                c \in Keys(Get(c0, "target"))}
        \cup (IF IsSome(Get(c0, "workspace"))
              THEN {<<Get(c0, "workspace"), Get(c1, "workspace")>>}
              ELSE {})

\* In every dependency table of the scope the table entries keyed by a local
\* name that have a version have the placeholder there and are otherwise as
\* they were, and every other entry is as it was.
ScopeMasked(s0, s1) ==
    \A d \in DOMAIN DependencyKeys :
        LET sec0 == Get(s0, DependencyKeys[d])
            sec1 == Get(s1, DependencyKeys[d])
        IN IF IsTable(sec0)
           THEN /\ IsTable(sec1)
                /\ DOMAIN sec1.t = DOMAIN sec0.t
                /\ \A key \in DOMAIN sec0.t :
                      IF /\ key \in names
                         /\ IsTable(sec0.t[key])
                         /\ "version" \in DOMAIN sec0.t[key].t
                      THEN /\ SameExcept(sec0.t[key], sec1.t[key], "version")
                           /\ Get(sec1.t[key], "version") = Placeholder
                      ELSE sec1.t[key] = sec0.t[key]
           ELSE sec1 = sec0

\* C7: scope completeness of the manifest masker.  For every manifest and every
\* local name, the table entry keyed by it that has a version is masked in
\* dependencies, dev-dependencies and build-dependencies of the top level, of
\* every target entry and of the workspace section; bare strings and entries
\* keyed by other names are unchanged.
ScopeComplete ==
    calls >= 1 =>
        \A i \in DOMAIN manifests0 :
            /\ Keys(Get(manifests[i].contents, "target"))
                  = Keys(Get(manifests0[i].contents, "target"))
            /\ \A sp \in ScopePairs(manifests0[i].contents, manifests[i].contents) :
                  ScopeMasked(sp[1], sp[2])

\* The version of the entry keyed by n went from another value to the
\* placeholder in the dependency table dk of the scope.
MaskedIn(s0, s1, dk, n) ==
    /\ IsSome(Get(Get(Get(s0, dk), n), "version"))
    /\ Get(Get(Get(s0, dk), n), "version") # Placeholder
    /\ Get(Get(Get(s1, dk), n), "version") = Placeholder

\* All five occurrences of the local dependency b of one manifest are masked
\* (the three top-level tables, a target entry, the workspace section), and the
\* entry keyed by c, not a local name, keeps its version.
ScopeCompleteWitness ==
    /\ calls = 1
    /\ names = {"b"}
    /\ \E i \in DOMAIN manifests0 :
          LET c0 == manifests0[i].contents
              c1 == manifests[i].contents
          IN /\ \A d \in DOMAIN DependencyKeys : MaskedIn(c0, c1, DependencyKeys[d], "b")
             /\ \E c \in Keys(Get(c0, "target")) :
                   MaskedIn(Get(c0, "target").t[c], Get(Get(c1, "target"), c),
                            "dependencies", "b")
             /\ MaskedIn(Get(c0, "workspace"), Get(c1, "workspace"), "dependencies", "b")
             /\ Get(Get(Get(c1, "dependencies"), "c"), "version") = Str("3.0.0")

\* C4: non-interference as claimed.  A dependency entry without a path field
\* keeps its version in every dependency table of every scope, also when its
\* key is the name of a local package.
NonInterference ==
    calls >= 1 =>
        \A i \in DOMAIN manifests0 :
            \A sp \in ScopePairs(manifests0[i].contents, manifests[i].contents) :
                \A d \in DOMAIN DependencyKeys :
                    \A key \in Keys(Get(sp[1], DependencyKeys[d])) :
                        LET e0 == Get(sp[1], DependencyKeys[d]).t[key]
                            e1 == Get(Get(sp[2], DependencyKeys[d]), key)
                        IN ~IsSome(Get(e0, "path")) =>
                              Get(e1, "version") = Get(e0, "version")

---------------------------------------------------------------------------
(* C10 *)

\* C10: the workspace version as claimed.  workspace.package.version gets the
\* placeholder if it is a string and is unchanged if it is not.
WorkspaceVersionTypeGated ==
    calls >= 1 =>
        \A i \in DOMAIN manifests0 :
            IF WorkspaceVersion(manifests0[i]).k = "String"
            THEN WorkspaceVersion(manifests[i]) = Placeholder
            ELSE WorkspaceVersion(manifests[i]) = WorkspaceVersion(manifests0[i])

---------------------------------------------------------------------------
(* C9 *)

AbsentMember == IsSome(member) /\ member.v \notin DeclaredNames(manifests0)

SameOrMasked(p0, p1, key) ==
    p1 = p0 \/ (SameExcept(p0, p1, key) /\ p1.t[key] = Placeholder)

---------------------------------------------------------------------------
(* C6 *)

\* The keys that some manifest declares with a path field in a top-level
\* dependency table.
AnyPathDeclared(ms) ==
    UNION {PathKeys(Get(ms[i].contents, DependencyKeys[d])) :
             i \in DOMAIN ms, d \in DOMAIN DependencyKeys}

\* The versions that the manifests hold for the package n after the call: of
\* the table entries keyed by n in every dependency table of every scope, and
\* of the string package.version of the manifests named n.
ManifestVersionsOf(n) ==
    UNION {{Get(Get(Get(sp[2], DependencyKeys[d]), n), "version") :
                sp \in ScopePairs(manifests0[i].contents, manifests[i].contents),
                d \in DOMAIN DependencyKeys} :
           i \in DOMAIN manifests0}
        \cup {SelfVersion(manifests[i]) :
                i \in {j \in DOMAIN manifests0 :
                          /\ PackageName(manifests0[j]) = Str(n)
                          /\ SelfVersion(manifests0[j]).k = "String"}}

\* C6 as claimed: with a lock document, every lock record named like a
\* dependency that some manifest declares with a path field has the placeholder
\* as version, and so have the dependency entries and the package.version of
\* that package in the manifests.
LockConsistentWithAnyPath ==
    (calls >= 1 /\ IsSome(lock_file0)) =>
        \A j \in DOMAIN LockPackages(lock_file0) :
            LET name == Get(LockPackages(lock_file0)[j], "name") IN
            (name.k = "String" /\ name.s \in AnyPathDeclared(manifests0)) =>
                /\ Get(LockPackages(lock_file)[j], "version") = Placeholder
                /\ ManifestVersionsOf(name.s) \subseteq {Placeholder, None}

\* C6 amended: with a lock document, every lock record that has a version and
\* whose name is in the resolved local name set (without member filter the
\* package.name of a manifest, with filter m a key that a manifest named m
\* declares with a path field in a top-level dependency table) has the
\* placeholder as version, and so has every version the manifests hold for it.
LockConsistentWithResolved ==
    (calls >= 1 /\ IsSome(lock_file0)) =>
        \A j \in DOMAIN LockPackages(lock_file0) :
            LET name == Get(LockPackages(lock_file0)[j], "name") IN
            (/\ name.k = "String"
             /\ name.s \in Resolved(member, manifests0)
             /\ IsSome(Get(LockPackages(lock_file0)[j], "version"))) =>
                /\ Get(LockPackages(lock_file)[j], "version") = Placeholder
                /\ ManifestVersionsOf(name.s) \subseteq {Placeholder, None}

\* Under the filter a the lock record of the path dependency b is masked
\* together with the entry that declares it; the record of c is not.
LockConsistentWitness ==
    /\ calls = 1
    /\ member = Some("a")
    /\ \E j \in DOMAIN LockPackages(lock_file0) :
          /\ Get(LockPackages(lock_file0)[j], "name") = Str("b")
          /\ Get(LockPackages(lock_file0)[j], "version") = Str("1.2.0")
          /\ Get(LockPackages(lock_file)[j], "version") = Placeholder
    /\ \E i \in DOMAIN manifests0, d \in DOMAIN DependencyKeys :
          /\ "b" \in PathKeys(Get(manifests0[i].contents, DependencyKeys[d]))
          /\ MaskedIn(manifests0[i].contents, manifests[i].contents, DependencyKeys[d], "b")
    /\ \E j \in DOMAIN LockPackages(lock_file0) :
          /\ Get(LockPackages(lock_file0)[j], "name") = Str("c")
          /\ Get(LockPackages(lock_file)[j], "version") = Str("3.0.0")


---------------------------------------------------------------------------
(* C2: two workspaces that differ in local version values only *)

RECURSIVE GetAt(_, _)
GetAt(v, path) == IF path = <<>> THEN v ELSE GetAt(Get(v, Head(path)), Tail(path))

RECURSIVE SetAt(_, _, _)
SetAt(v, path, x) ==
    IF path = <<>> THEN x
    ELSE Put(v, Head(path), SetAt(Get(v, Head(path)), Tail(path), x))

\* Where a manifest holds the version of a local package: its own
\* package.version and the version of the dependency entries keyed by a local
\* name, in the top level, the target entries and the workspace section.
LocalVersionPaths(local) ==
    {<<"package", "version">>}
        \cup {<<DependencyKeys[d], n, "version">> :
                d \in DOMAIN DependencyKeys, n \in local}
        \cup {<<"target", TargetNames[c], DependencyKeys[d], n, "version">> :
                c \in DOMAIN TargetNames, d \in DOMAIN DependencyKeys, n \in local}
        \cup {<<"workspace", DependencyKeys[d], n, "version">> :
                d \in DOMAIN DependencyKeys, n \in local}

BumpedVersion == Str("2.0.0")

\* The plain manifests that have a package name.
NamedManifests == {m \in PlainManifests : PackageName(m).k = "String"}

\* The dependency tables whose entry b has a version string.
VersionedTables == {D \in ScopeTables : Get(Get(D, "b"), "version").k = "String"}

\* The workspaces that are bumped: those of family 3 whose dependency b has a
\* version string and that have no workspace.package.version, and those of family 1 that have a rich first manifest,
\* members with a package name after it, and the lock document.
InputsBump ==
    ScopeInputs(VersionedTables, {None})
        \cup {<<mem, w, LockABC>> :
                mem \in {None, Some("a")},
                w \in Workspaces(RichManifests, NamedManifests, NumManifests)}

InitBump ==
    \E in \in InputsBump :
        /\ member = in[1]
        /\ manifests = in[2]
        /\ lock_file = in[3]
        /\ manifests0 = in[2]
        /\ lock_file0 = in[3]
        /\ names = {}
        /\ calls = 0
        /\ manifestsB = in[2]
        /\ lock_fileB = in[3]
        /\ manifestsB0 = in[2]
        /\ lock_fileB0 = in[3]
        /\ bumps = 0

\* Before the call, the version string of a local package is changed in a
\* manifest of the second workspace.
BumpManifest ==
    /\ calls = 0
    /\ bumps < MaxBumps
    /\ \E i \in DOMAIN manifestsB :
         \E path \in LocalVersionPaths(Resolved(member, manifests)) :
            /\ GetAt(manifestsB[i].contents, path).k = "String"
            /\ GetAt(manifestsB[i].contents, path) # BumpedVersion
            /\ manifestsB' = [manifestsB EXCEPT ![i].contents =
                                 SetAt(manifestsB[i].contents, path, BumpedVersion)]
    /\ manifestsB0' = manifestsB'
    /\ bumps' = bumps + 1
    /\ UNCHANGED <<member, manifests, lock_file, manifests0, lock_file0, names, calls,
                   lock_fileB, lock_fileB0>>

\* Before the call, the version string of a lock record named by a local name
\* is changed in the second workspace.
BumpLock ==
    /\ calls = 0
    /\ bumps < MaxBumps
    /\ \E j \in DOMAIN LockPackages(lock_fileB) :
         LET record == LockPackages(lock_fileB)[j] IN
            /\ Get(record, "name").k = "String"
            /\ Get(record, "name").s \in Resolved(member, manifests)
            /\ Get(record, "version").k = "String"
            /\ Get(record, "version") # BumpedVersion
            /\ lock_fileB' = Put(lock_fileB, "package",
                                 Arr([LockPackages(lock_fileB) EXCEPT
                                         ![j] = Put(record, "version", BumpedVersion)]))
    /\ lock_fileB0' = lock_fileB'
    /\ bumps' = bumps + 1
    /\ UNCHANGED <<member, manifests, lock_file, manifests0, lock_file0, names, calls,
                   manifestsB, manifestsB0>>

\* One call of mask_local_crate_versions on each of the two workspaces, with
\* the same member filter.
MaskBoth ==
    /\ calls = 0
    /\ LET out  == mask_local_crate_versions(member, manifests, lock_file)
           outB == mask_local_crate_versions(member, manifestsB, lock_fileB)
       IN /\ names' = out.names
          /\ manifests' = out.manifests
          /\ lock_file' = out.lock_file
          /\ manifestsB' = outB.manifests
          /\ lock_fileB' = outB.lock_file
    /\ manifests0' = manifests
    /\ lock_file0' = lock_file
    /\ manifestsB0' = manifestsB
    /\ lock_fileB0' = lock_fileB
    /\ calls' = calls + 1
    /\ UNCHANGED <<member, bumps>>

NextBump == BumpManifest \/ BumpLock \/ MaskBoth

SpecBump == InitBump /\ [][NextBump]_vars

\* C2: version-bump insensitivity.  Two workspaces that are identical except
\* for version strings of local packages (a manifest's package.version, the
\* version of dependency entries keyed by a local name, the version of lock
\* records named by a local name) are identical after masking with the same
\* member filter: every masked location holds the same placeholder.
BumpInsensitive ==
    calls >= 1 => manifests = manifestsB /\ lock_file = lock_fileB

\* The workspaces handed to the first call differed in the version of a
\* dependency entry keyed by a local name, which both runs replaced by 0.0.1.
BumpInsensitiveWitness ==
    /\ calls = 1
    /\ bumps >= 1
    /\ \E i \in DOMAIN manifests0, d \in DOMAIN DependencyKeys, n \in names :
          LET at == <<DependencyKeys[d], n, "version">> IN
          /\ GetAt(manifests0[i].contents, at).k = "String"
          /\ GetAt(manifestsB0[i].contents, at) = BumpedVersion
          /\ GetAt(manifests0[i].contents, at) # BumpedVersion
          /\ GetAt(manifests[i].contents, at) = Str("0.0.1")
          /\ GetAt(manifestsB[i].contents, at) = Str("0.0.1")

\* The same for a bumped lock record.
BumpInsensitiveWitnessLock ==
    /\ calls = 1
    /\ lock_file0 # lock_fileB0
    /\ lock_file = lock_fileB

=============================================================================
